---- MODULE Spec2Model ----
(***************************************************************************)
(* The Paralympics dashboard client (src/frontend/app.py): the memoized    *)
(* fetch load_data, the local query functions that mimic a REST API, the   *)
(* host coordinate lookup, and the render pass main() that Streamlit runs  *)
(* again on every user interaction.                                        *)
(*                                                                         *)
(* Python values are tagged ([t |-> type, v |-> value]) so that the int 0  *)
(* that fillna puts in place of a missing text is not the string "0".      *)
(* Coordinates are in millionths of a degree.                              *)
(***************************************************************************)
EXTENDS Integers, Sequences, FiniteSets, TLC

VARIABLES
    cache,      \* the slot st.cache_data keeps for load_data
    fetches,    \* requests sent to the HTTP Data Endpoint so far
    snapshot,   \* the response of the first request and the table made of it
    view,       \* what the last run of main() computed
    call        \* FnSpec: the function called, its arguments and its result

vars == <<cache, fetches, snapshot, view, call>>

\* ------------------------------------------------------------ bounds
\* Most rows in a response of the HTTP Data Endpoint.
MaxRows == 2
\* Identifiers asked of local_get_by_id range over 0 .. MaxGameId.
MaxGameId == 6
\* Year bounds given to the filter range over FirstYear - 1 .. FirstYear + YearSpan.
YearSpan == 3

\* ------------------------------------------------- python values
IntV(n) == [t |-> "int", v |-> n]
StrV(s) == [t |-> "str", v |-> s]
FloatV(n) == [t |-> "float", v |-> n]
None == [t |-> "None", v |-> 0]

\* Python's == on the values of the model: values of different types differ.
PyEq(a, b) == a.t = b.t /\ a.v = b.v

\* Python truthiness: None, 0 and "" are false.
Truthy(x) ==
    CASE x.t = "None" -> FALSE
      [] x.t = "int" -> x.v # 0
      [] x.t = "float" -> x.v # 0
      [] x.t = "str" -> x.v # ""

\* ------------------------------------------------------- strings
UpperCase == "ABCDEFGHIJKLMNOPQRSTUVWXYZ"
LowerCase == "abcdefghijklmnopqrstuvwxyz"
Digits == "0123456789"
Whitespace == {" ", "\t", "\n", "\r", "\f"}

CharAt(s, i) == SubSeq(s, i, i)

\* str.lower() on one character.
LowerChar(c) ==
    IF \E i \in 1..Len(UpperCase) : CharAt(UpperCase, i) = c
    THEN CharAt(LowerCase, CHOOSE i \in 1..Len(UpperCase) : CharAt(UpperCase, i) = c)
    ELSE c

RECURSIVE Lower(_)
\* str.lower()
Lower(s) == IF s = "" THEN "" ELSE LowerChar(Head(s)) \o Lower(Tail(s))

RECURSIVE LStrip(_)
LStrip(s) == IF s # "" /\ Head(s) \in Whitespace THEN LStrip(Tail(s)) ELSE s

RECURSIVE RStrip(_)
RStrip(s) ==
    IF s # "" /\ CharAt(s, Len(s)) \in Whitespace
    THEN RStrip(SubSeq(s, 1, Len(s) - 1))
    ELSE s

\* str.strip()
Strip(s) == RStrip(LStrip(s))

RECURSIVE SplitFirst(_, _)
\* s.split(sep)[0]: the text before the first sep, all of s when it has none.
SplitFirst(s, sep) ==
    IF s = "" \/ Head(s) = sep THEN "" ELSE Head(s) \o SplitFirst(Tail(s), sep)

RECURSIVE NatToStr(_)
NatToStr(n) ==
    IF n < 10 THEN CharAt(Digits, n + 1)
    ELSE NatToStr(n \div 10) \o CharAt(Digits, (n % 10) + 1)

\* str() of a value, as an f-string formats it.
PyStr(x) ==
    CASE x.t = "str" -> x.v
      [] x.t = "int" -> IF x.v < 0 THEN "-" \o NatToStr(-x.v) ELSE NatToStr(x.v)
      [] x.t = "None" -> "None"

\* ---------------------------------------------- host coordinates
\* HOST_COORDINATES: <<city, lat, lon>>, in the order of the source. The key of
\* line 90 holds characters outside ASCII, each written "?" here; no host the
\* model looks up holds a "?".
HOST_COORDINATES == <<
    <<"Rome", 41902800, 12496400>>,
    <<"Tokyo", 35676200, 139650300>>,
    <<"Tel Aviv", 32085300, 34781800>>,
    <<"Heidelberg", 49398800, 8672400>>,
    <<"Toronto", 43651070, -79347015>>,
    <<"Arnhem", 51985100, 5898700>>,
    <<"Stoke Mandeville", 51800000, -810000>>,
    <<"New York", 40712800, -74006000>>,
    <<"Seoul", 37566500, 126978000>>,
    <<"Barcelona", 41385100, 2173400>>,
    <<"Atlanta", 33749000, -84388000>>,
    <<"Sydney", -33868800, 151209300>>,
    <<"Athens", 37983800, 23727500>>,
    <<"Beijing", 39904200, 116407400>>,
    <<"London", 51507400, -127800>>,
    <<"Rio", -22906800, -43172900>>,
    <<"??rnsk??ldsvik", 63290500, 18715300>>,
    <<"Geilo", 60533300, 8207600>>,
    <<"Innsbruck", 47269200, 11404100>>,
    <<"Tignes-Albertville", 45670000, 6390000>>,
    <<"Lillehammer", 61115300, 10466200>>,
    <<"Nagano", 36648600, 138194200>>,
    <<"Salt Lake City", 40760800, -111891000>>,
    <<"Torino", 45070300, 7686900>>,
    <<"Vancouver", 49282700, -123120700>>,
    <<"Sochi", 43602800, 39734200>>,
    <<"PyeongChang", 37370400, 128390200>>,
    <<"Paris", 48856600, 2352200>>,
    <<"Milan", 45464200, 9190000>>,
    <<"Brisbane", -27469800, 153025100>>,
    <<"Los Angeles", 34052200, -118243700>>,
    <<"French Alps", 45500000, 6500000>>
>>

HostKeys == {HOST_COORDINATES[i][1] : i \in 1..Len(HOST_COORDINATES)}

HostEntry(city) ==
    HOST_COORDINATES[CHOOSE i \in 1..Len(HOST_COORDINATES) : HOST_COORDINATES[i][1] = city]

NoCoordinates == <<None, None>>

\* get_lat_lon looking up the whole host string, co-hosts and all.
get_lat_lon_whole(host_name) ==
    LET first_host == IF Truthy(host_name) THEN Strip(host_name.v) ELSE ""
    IN  IF first_host \in HostKeys
        THEN <<FloatV(HostEntry(first_host)[2]), FloatV(HostEntry(first_host)[3])>>
        ELSE NoCoordinates

get_lat_lon(host_name) ==
    LET first_host == IF Truthy(host_name) THEN Strip(SplitFirst(host_name.v, ",")) ELSE ""
    IN  IF first_host \in HostKeys
        THEN <<FloatV(HostEntry(first_host)[2]), FloatV(HostEntry(first_host)[3])>>
        ELSE NoCoordinates

\* ------------------------------------------------------- tables
\* A DataFrame: its column labels and its rows in order, each row a record
\* of the columns. pd.DataFrame() has no columns and no rows.
Columns ==
    {"game_id", "year", "event_type", "host", "participants_total",
     "countries_count", "participants_m", "participants_f"}

EmptyFrame == [columns |-> {}, rows |-> <<>>]

\* DataFrame.empty
IsEmpty(df) == df.columns = {} \/ df.rows = <<>>

Edition(id, year, event_type, host, total, countries, m, f) ==
    [game_id |-> id, year |-> year, event_type |-> event_type, host |-> host,
     participants_total |-> total, countries_count |-> countries,
     participants_m |-> m, participants_f |-> f]

\* The first year the dashboard shows (the slider's default lower end and
\* the filter's default min_year).
FirstYear == 1960

\* The objects a response of the HTTP Data Endpoint is made of. None is a
\* JSON null (or an absent key). Two editions share a year, two share year,
\* host and type, two share an identifier.
Catalogue == {
    Edition(IntV(1), IntV(FirstYear), StrV("summer"), StrV("Rome"),
            IntV(400), IntV(23), None, None),
    Edition(IntV(2), IntV(FirstYear + 1), StrV("winter"), StrV("Stoke Mandeville, New York"),
            IntV(100), IntV(10), IntV(60), IntV(40)),
    Edition(IntV(3), IntV(FirstYear + 1), StrV("summer"), StrV("Atlantis"),
            None, IntV(5), IntV(3), IntV(2)),
    Edition(IntV(4), IntV(FirstYear + 2), StrV("winter"), None,
            IntV(50), None, IntV(30), IntV(20)),
    Edition(IntV(5), IntV(FirstYear), StrV("summer"), StrV("Rome"),
            IntV(7), IntV(1), IntV(4), IntV(3)),
    Edition(IntV(1), IntV(FirstYear + 2), StrV("summer"), StrV(" Tokyo "),
            IntV(9), IntV(2), IntV(5), IntV(4))
}

SeqsUpTo(S, n) == UNION {[1..k -> S] : k \in 0..n}

\* ---------------------------------------------------- load_data
\* What requests.get(API_URL) can do: answer with a status and a body, or
\* raise. A 200 body is a JSON array of editions, or is not JSON at all.
Responses ==
    {[kind |-> "response", status_code |-> 200, json_ok |-> TRUE, data |-> d] :
        d \in SeqsUpTo(Catalogue, MaxRows)}
    \cup {[kind |-> "response", status_code |-> 200, json_ok |-> FALSE, data |-> <<>>]}
    \cup {[kind |-> "response", status_code |-> c, json_ok |-> TRUE, data |-> <<>>] :
        c \in {404, 500}}
    \cup {[kind |-> "exception", status_code |-> 0, json_ok |-> FALSE, data |-> <<>>]}

\* fillna whose result is thrown away (df[col].fillna(0) without the
\* assignment): the entry stays as it was.
fillna_discarded(x) == x

\* Series.fillna(0) on one entry.
fillna(x) == IF x.t = "None" THEN IntV(0) ELSE x

\* pd.DataFrame(data), then fillna(0) on every column.
CleanFrame(data) ==
    IF data = <<>> THEN EmptyFrame
    ELSE [columns |-> Columns,
          rows |-> [i \in 1..Len(data) |-> [c \in Columns |-> fillna(data[i][c])]]]

\* The body of load_data: the table and the error it shows.
FetchData(response) ==
    IF response.kind # "response"
    THEN [df |-> EmptyFrame, error |-> "Error connecting to backend"]
    ELSE IF response.status_code = 200
         THEN IF response.json_ok
              THEN [df |-> CleanFrame(response.data), error |-> ""]
              ELSE [df |-> EmptyFrame, error |-> "Error connecting to backend"]
         ELSE [df |-> EmptyFrame,
               error |-> "Failed to fetch data: " \o NatToStr(response.status_code)]

EmptyCache == [filled |-> FALSE, value |-> EmptyFrame, error |-> ""]

\* load_data without the memoization: every call fetches.
load_data_uncached(c, response) ==
    LET r == FetchData(response)
    IN  [cache |-> [filled |-> TRUE, value |-> r.df, error |-> r.error],
         df |-> r.df, error |-> r.error, requests |-> 1]

\* load_data under st.cache_data: the first call runs the body and stores
\* its result (and the error element it showed); a later call returns a copy
\* of the stored table and shows the stored element again.
load_data(c, response) ==
    IF c.filled
    THEN [cache |-> c, df |-> c.value, error |-> c.error, requests |-> 0]
    ELSE LET r == FetchData(response)
         IN  [cache |-> [filled |-> TRUE, value |-> r.df, error |-> r.error],
              df |-> r.df, error |-> r.error, requests |-> 1]

\* ------------------------------------------- local query functions
NoRow == [kind |-> "None", row |-> <<>>]
ARow(r) == [kind |-> "row", row |-> r]

\* local_get_by_id: df['game_id'] raises KeyError on a table without that
\* column; otherwise the first row of the matching rows, or None.
local_get_by_id(df, game_id) ==
    IF "game_id" \notin df.columns
    THEN [raised |-> "KeyError", value |-> NoRow]
    ELSE LET result == SelectSeq(df.rows, LAMBDA r : PyEq(r.game_id, game_id))
         IN  [raised |-> "", value |-> IF result # <<>> THEN ARow(result[1]) ELSE NoRow]

\* The rows of local_filter_by_type_and_year's result.
FilterRows(rows, event_type, min_year, max_year) ==
    LET typed == IF Truthy(event_type) /\ event_type.v # "All"
                 THEN SelectSeq(rows, LAMBDA r : PyEq(r.event_type, StrV(Lower(event_type.v))))
                 ELSE rows
    IN  SelectSeq(typed, LAMBDA r : r.year.v >= min_year /\ r.year.v <= max_year)

\* local_filter_by_type_and_year comparing against the type as given, not
\* lowercased.
local_filter_by_type_and_year_nolower(df, event_type, min_year, max_year) ==
    IF {"event_type", "year"} \subseteq df.columns
    THEN LET typed == IF Truthy(event_type) /\ event_type.v # "All"
                      THEN SelectSeq(df.rows, LAMBDA r : PyEq(r.event_type, event_type))
                      ELSE df.rows
         IN  [raised |-> "", df |-> df,
              out |-> [columns |-> df.columns,
                       rows |-> SelectSeq(typed, LAMBDA r : r.year.v >= min_year
                                                            /\ r.year.v <= max_year)]]
    ELSE [raised |-> "KeyError", df |-> df, out |-> EmptyFrame]

\* local_filter_by_type_and_year dropping the rows from df itself.
local_filter_by_type_and_year_inplace(df, event_type, min_year, max_year) ==
    IF {"event_type", "year"} \subseteq df.columns
    THEN LET out == [columns |-> df.columns,
                     rows |-> FilterRows(df.rows, event_type, min_year, max_year)]
         IN  [raised |-> "", df |-> out, out |-> out]
    ELSE [raised |-> "KeyError", df |-> df, out |-> EmptyFrame]

\* local_filter_by_type_and_year: df is what the caller's table is after the
\* call (the function works on df.copy()), out the table returned. A table
\* without the columns raises KeyError.
local_filter_by_type_and_year(df, event_type, min_year, max_year) ==
    IF {"event_type", "year"} \subseteq df.columns
    THEN [raised |-> "", df |-> df,
          out |-> [columns |-> df.columns,
                   rows |-> FilterRows(df.rows, event_type, min_year, max_year)]]
    ELSE [raised |-> "KeyError", df |-> df, out |-> EmptyFrame]

\* ------------------------------------------------- render pass
TypeOptions == {"All", "Summer", "Winter"}

RECURSIVE SumOf(_, _)
\* Series.sum() of column c.
SumOf(rows, c) == IF rows = <<>> THEN 0 ELSE Head(rows)[c].v + SumOf(Tail(rows), c)

YearsOf(rows) == {rows[i].year.v : i \in 1..Len(rows)}
MinOf(S) == CHOOSE x \in S : \A y \in S : x <= y
MaxOf(S) == CHOOSE x \in S : \A y \in S : x >= y

\* sort_values('year', ascending=True): what the descending sort would be
\* with the flag dropped.
SortValuesYear_ascending(rows) ==
    LET n == Len(rows)
        perms == {p \in [1..n -> 1..n] : \A i, j \in 1..n : i # j => p[i] # p[j]}
    IN  {[i \in 1..n |-> rows[p[i]]] :
            p \in {q \in perms : \A i, j \in 1..n :
                        i < j => rows[q[i]].year.v <= rows[q[j]].year.v}}

\* sort_values('year', ascending=False) with the default kind='quicksort',
\* which is not a stable sort: every ordering of the rows by descending
\* year is a possible result, rows of equal year in any order.
SortValuesYear(rows) ==
    LET n == Len(rows)
        perms == {p \in [1..n -> 1..n] : \A i, j \in 1..n : i # j => p[i] # p[j]}
    IN  {[i \in 1..n |-> rows[p[i]]] :
            p \in {q \in perms : \A i, j \in 1..n :
                        i < j => rows[q[i]].year.v >= rows[q[j]].year.v}}

\* f"{row['year']} - {row['host']} ({row['event_type']})"
Label(row) ==
    PyStr(row.year) \o " - " \o PyStr(row.host) \o " (" \o PyStr(row.event_type) \o ")"

\* d[k] = v on a dict kept as its items in insertion order: a key already
\* there keeps its place and takes the new value.
DictPut(d, k, v) ==
    IF \E i \in 1..Len(d) : d[i].key = k
    THEN [i \in 1..Len(d) |-> IF d[i].key = k THEN [key |-> k, value |-> v] ELSE d[i]]
    ELSE Append(d, [key |-> k, value |-> v])

DictKeys(d) == {d[i].key : i \in 1..Len(d)}
DictGet(d, k) == d[CHOOSE i \in 1..Len(d) : d[i].key = k].value

RECURSIVE GameOptions(_, _)
\* The dict comprehension over the sorted rows: label -> game_id.
GameOptions(sorted, d) ==
    IF sorted = <<>> THEN d
    ELSE GameOptions(Tail(sorted), DictPut(d, Label(Head(sorted)), Head(sorted).game_id))

\* map_df: a copy of the filtered table with the lat and lon columns added.
MapFrame(filtered_df) ==
    [columns |-> filtered_df.columns \cup {"lat", "lon"},
     rows |-> [i \in 1..Len(filtered_df.rows) |->
                 [c \in filtered_df.columns \cup {"lat", "lon"} |->
                    IF c = "lat" THEN get_lat_lon(filtered_df.rows[i].host)[1]
                    ELSE IF c = "lon" THEN get_lat_lon(filtered_df.rows[i].host)[2]
                    ELSE filtered_df.rows[i][c]]]]

\* gender_df: the melt of participants_m and participants_f, the Gender
\* labels replaced.
GenderFrame(filtered_df) ==
    LET n == Len(filtered_df.rows)
        long(g, c) == [i \in 1..n |->
                         [year |-> filtered_df.rows[i].year,
                          event_type |-> filtered_df.rows[i].event_type,
                          Gender |-> StrV(g), Count |-> filtered_df.rows[i][c]]]
    IN  [columns |-> {"year", "event_type", "Gender", "Count"},
         rows |-> long("Male", "participants_m") \o long("Female", "participants_f")]

NoMetrics ==
    [games_held |-> -1, total_participants |-> -1, total_countries |-> -1,
     latest_host |-> None]

\* What one run of main() leaves on the page. memoized: load_data sent no
\* request in this run. computed names the parts the run got to; a part not
\* in it was not computed and holds its blank value.
Blank ==
    [outcome |-> "none", memoized |-> FALSE, computed |-> {}, messages |-> {},
     raw_df |-> EmptyFrame,
     selected_type |-> "", year_range |-> <<0, 0>>, filtered_df |-> EmptyFrame,
     metrics |-> NoMetrics, map_df |-> EmptyFrame, gender_df |-> EmptyFrame,
     game_options |-> <<>>, selected_label |-> "", selected_id |-> None,
     game_detail |-> NoRow]

Messages(error) == IF error = "" THEN {} ELSE {[level |-> "error", text |-> error]}

BackendWarning ==
    [level |-> "warning", text |-> "Please ensure the Backend Server is running"]

\* main() going on with whatever table it got.
ShortCircuits_never(raw_df) == FALSE

\* The guard of main(): an empty table ends the run.
ShortCircuits(raw_df) == IsEmpty(raw_df)

\* Tab 3: the selector over every edition of raw_df and the detail of the
\* selected one. v is the view so far.
DetailViews(v, raw_df) ==
    UNION {
        LET game_options == GameOptions(sorted, <<>>)
        IN  {LET selected_id == DictGet(game_options, selected_label)
                 game_detail == local_get_by_id(raw_df, selected_id)
             IN  IF game_detail.raised # ""
                 THEN [v EXCEPT !.outcome = game_detail.raised,
                                !.game_options = game_options,
                                !.selected_label = selected_label,
                                !.selected_id = selected_id]
                 ELSE [v EXCEPT !.outcome = "rendered",
                                !.computed = @ \cup {"detail"},
                                !.game_options = game_options,
                                !.selected_label = selected_label,
                                !.selected_id = selected_id,
                                !.game_detail = game_detail.value] :
             selected_label \in DictKeys(game_options)} :
        sorted \in SortValuesYear(raw_df.rows)}

\* The run from the filter on, for one choice in the sidebar.
FilteredViews(v, raw_df, selected_type, year_range) ==
    LET f == local_filter_by_type_and_year(raw_df, StrV(selected_type),
                                           year_range[1], year_range[2])
        filtered_df == f.out
        w == [v EXCEPT !.computed = {"widgets", "filter"},
                       !.raw_df = f.df,
                       !.selected_type = selected_type,
                       !.year_range = year_range,
                       !.filtered_df = filtered_df]
        counts == [NoMetrics EXCEPT
                     !.games_held = Len(filtered_df.rows),
                     !.total_participants = SumOf(filtered_df.rows, "participants_total"),
                     !.total_countries = SumOf(filtered_df.rows, "countries_count")]
    IN  IF f.raised # "" THEN {[w EXCEPT !.outcome = f.raised]}
        ELSE IF filtered_df.rows = <<>>
        \* .iloc[0] of the sorted empty table
        THEN {[w EXCEPT !.outcome = "IndexError", !.metrics = counts]}
        ELSE UNION {
            DetailViews([w EXCEPT !.metrics = [counts EXCEPT !.latest_host = ordered[1].host],
                                  !.computed = @ \cup {"metrics", "charts", "map", "gender"},
                                  !.map_df = MapFrame(filtered_df),
                                  !.gender_df = GenderFrame(filtered_df)],
                        f.df) :
            ordered \in SortValuesYear(filtered_df.rows)}

\* Every page one run of main() can leave, given the table and the error
\* element load_data returned. The slider gives a range lo <= hi within the
\* years of the table.
Views(raw_df, error, memoized) ==
    LET v == [Blank EXCEPT !.messages = Messages(error), !.raw_df = raw_df,
                           !.memoized = memoized]
    IN  IF ShortCircuits(raw_df)
        THEN {[v EXCEPT !.outcome = "short_circuit",
                        !.messages = @ \cup {BackendWarning}]}
        ELSE IF "year" \notin raw_df.columns
        THEN {[v EXCEPT !.outcome = "KeyError"]}
        ELSE LET min_year == MinOf(YearsOf(raw_df.rows))
                 max_year == MaxOf(YearsOf(raw_df.rows))
                 ranges == {r \in (min_year..max_year) \X (min_year..max_year) : r[1] <= r[2]}
             IN  UNION {FilteredViews(v, raw_df, selected_type, year_range) :
                        selected_type \in TypeOptions, year_range \in ranges}

\* -------------------------------------------------------- session
Idle == [fn |-> "none"]

NoResponse == [kind |-> "none", status_code |-> 0, json_ok |-> FALSE, data |-> <<>>]

Init ==
    /\ cache = EmptyCache
    /\ fetches = 0
    /\ snapshot = [response |-> NoResponse, df |-> EmptyFrame]
    /\ view = Blank
    /\ call = Idle

\* No request is sent on a cache hit, so no response is drawn for it.
ResponsesFor(c) == IF c.filled THEN {NoResponse} ELSE Responses

\* One run of main(): the page is opened, or a widget is changed.
Main ==
    \E response \in ResponsesFor(cache) :
        LET ld == load_data(cache, response)
        IN  /\ cache' = ld.cache
            /\ fetches' = fetches + ld.requests
            /\ snapshot' = IF fetches = 0 /\ ld.requests = 1
                           THEN [response |-> response, df |-> ld.df]
                           ELSE snapshot
            /\ view' \in Views(ld.df, ld.error, ld.requests = 0)
            /\ UNCHANGED call

Next == Main

Spec == Init /\ [][Next]_vars

\* ---------------------------------- the functions called on their own
HostInputs ==
    {StrV(a \o b \o c \o d) :
        a \in {"", " ", "\t "},
        b \in {"Rome", "Stoke Mandeville", "New York", "Atlantis", "rome", "", "Salt Lake City"},
        c \in {"", " "},
        d \in {"", ",", ", New York", ",Rome", " , Tokyo"}}
    \cup {None, IntV(0)}

\* Each behaviour of FnSpec is one call of one function on one input.
CallGetLatLon ==
    /\ call = Idle
    /\ \E h \in HostInputs :
        /\ call' = [fn |-> "get_lat_lon", host_name |-> h, result |-> get_lat_lon(h)]
        /\ UNCHANGED <<cache, fetches, snapshot, view>>

Tables == {CleanFrame(d) : d \in SeqsUpTo(Catalogue, MaxRows)}

TypeInputs ==
    {None, StrV(""), StrV("All"), StrV("all"), StrV("Summer"), StrV("summer"),
     StrV("WINTER"), StrV("Autumn")}

YearInputs == (FirstYear - 1)..(FirstYear + YearSpan)

CallFilter ==
    /\ call = Idle
    /\ \E df \in Tables, t \in TypeInputs, lo \in YearInputs, hi \in YearInputs :
        /\ call' = [fn |-> "local_filter_by_type_and_year", df |-> df, event_type |-> t,
                    min_year |-> lo, max_year |-> hi,
                    result |-> local_filter_by_type_and_year(df, t, lo, hi)]
        /\ UNCHANGED <<cache, fetches, snapshot, view>>

CallGetById ==
    /\ call = Idle
    /\ \E df \in Tables, i \in 0..MaxGameId :
        /\ call' = [fn |-> "local_get_by_id", df |-> df, game_id |-> IntV(i),
                    result |-> local_get_by_id(df, IntV(i))]
        /\ UNCHANGED <<cache, fetches, snapshot, view>>

FnNext == CallGetLatLon \/ CallFilter \/ CallGetById

FnSpec == Init /\ [][FnNext]_vars

\* ------------------------------------------------------------ claims
RowsOf(df) == {df.rows[i] : i \in 1..Len(df.rows)}

\* The rows of a table in the year range and, with a type given other than
\* "All", of that type lowercased.
Wanted(r, t, lo, hi) ==
    /\ lo <= r.year.v /\ r.year.v <= hi
    /\ (t.t = "str" /\ t.v \notin {"", "All"}) => (r.event_type.t = "str" /\ r.event_type.v = Lower(t.v))

GetByIdNeverRaises ==
    call.fn = "local_get_by_id" =>
        LET hits == {i \in 1..Len(call.df.rows) :
                        call.df.rows[i].game_id = call.game_id}
        IN  /\ call.result.raised = ""
            /\ hits # {} => call.result.value = ARow(call.df.rows[MinOf(hits)])
            /\ hits = {} => call.result.value = NoRow

\* The text of s before its first comma, without the whitespace around it.
CityOf(s) ==
    LET commas == {i \in 1..Len(s) : CharAt(s, i) = ","}
        before == IF commas = {} THEN s ELSE SubSeq(s, 1, MinOf(commas) - 1)
        solid == {i \in 1..Len(before) : CharAt(before, i) \notin Whitespace}
    IN  IF solid = {} THEN "" ELSE SubSeq(before, MinOf(solid), MaxOf(solid))

\* C5: get_lat_lon looks up the trimmed text before the first comma: the
\* coordinates of that city when HOST_COORDINATES has it, (None, None)
\* otherwise, for a missing host and the 0 of a null host too; never (0, 0).
LatLonOfFirstCity ==
    call.fn = "get_lat_lon" =>
        LET city == IF call.host_name.t = "str" THEN CityOf(call.host_name.v) ELSE ""
        IN  /\ call.result # <<FloatV(0), FloatV(0)>>
            /\ IF \E i \in 1..Len(HOST_COORDINATES) : HOST_COORDINATES[i][1] = city
               THEN \E i \in 1..Len(HOST_COORDINATES) :
                       /\ HOST_COORDINATES[i][1] = city
                       /\ call.result = <<FloatV(HOST_COORDINATES[i][2]),
                                          FloatV(HOST_COORDINATES[i][3])>>
               ELSE call.result = <<None, None>>

\* C5 witness: a compound host with whitespace around its first city
\* resolves to Stoke Mandeville.
CompoundHostResolved ==
    /\ call.fn = "get_lat_lon"
    /\ call.host_name = StrV(" Stoke Mandeville , New York")
    /\ call.result = <<FloatV(51800000), FloatV(-810000)>>

Failed(response) ==
    response.kind = "exception" \/ (response.kind = "response" /\ response.status_code # 200)

\* C3: after a failed fetch (a status other than 200, or an exception) every
\* run shows load_data's error, gets the empty table and ends at the guard:
\* no widget, metric, chart or detail is computed, and nothing is raised.
FailedFetchShortCircuits ==
    (view.outcome # "none" /\ Failed(snapshot.response)) =>
        /\ snapshot.df = EmptyFrame
        /\ view.raw_df = EmptyFrame
        /\ \E m \in view.messages : m.level = "error"
        /\ view.outcome = "short_circuit"
        /\ view.computed = {}
        /\ view.metrics = NoMetrics
        /\ view.game_detail = NoRow

\* C3 witness: a run after the endpoint answered 500.
ShortCircuitedOn500 ==
    /\ snapshot.response.kind = "response"
    /\ snapshot.response.status_code = 500
    /\ view.outcome = "short_circuit"
    /\ [level |-> "error", text |-> "Failed to fetch data: 500"] \in view.messages

\* C4: a session sends at most one request: the first load_data call sends
\* it, and every later run gets the stored table with no request, whether
\* the first call returned editions or the empty table of a failure.
AtMostOneFetch ==
    /\ fetches <= 1
    /\ cache.filled <=> fetches = 1
    /\ view.outcome # "none" =>
          /\ fetches = 1
          /\ view.memoized => view.raw_df = snapshot.df

\* C4 witness: a memoized run after a failed first fetch.
MemoizedAfterFailure ==
    /\ view.memoized
    /\ fetches = 1
    /\ Failed(snapshot.response)
    /\ view.outcome = "short_circuit"

\* The sum of column c, by index.
Total(rows, c) ==
    LET S[i \in 0..Len(rows)] == IF i = 0 THEN 0 ELSE S[i - 1] + rows[i][c].v
    IN  S[Len(rows)]

LatestYear(df) == MaxOf({df.rows[i].year.v : i \in 1..Len(df.rows)})

FetchedTableNeverModified ==
    /\ cache.filled => cache.value = snapshot.df
    /\ view.outcome # "none" => view.raw_df = snapshot.df

\* C7 witness: a memoized run that filtered a row away and built the map and
\* gender tables, with the fetched table as it was.
DerivedViewsBuilt ==
    /\ view.memoized
    /\ view.outcome = "rendered"
    /\ Len(view.filtered_df.rows) < Len(view.raw_df.rows)
    /\ "lat" \in view.map_df.columns
    /\ Len(view.gender_df.rows) = 2 * Len(view.filtered_df.rows)
    /\ view.raw_df = snapshot.df

\* C8: in every run that gets to the detail tab, every edition of the
\* fetched table has its entry in the selector, the entry of an edition's
\* label leads to that edition's game_id, and the selected entry's lookup
\* finds a row of the selected game_id.
SelectorOffersEveryEdition ==
    view.outcome = "rendered" =>
        /\ \A r \in RowsOf(view.raw_df) :
              /\ \E i \in 1..Len(view.game_options) :
                    view.game_options[i].value = r.game_id
              /\ \E i \in 1..Len(view.game_options) :
                    /\ view.game_options[i].key = Label(r)
                    /\ view.game_options[i].value = r.game_id
        /\ view.game_detail.kind = "row"
        /\ view.game_detail.row.game_id = view.selected_id

\* C9: the table of a 200 response has no missing entry: an entry missing
\* in the response is 0, an entry present is as it was.
NoMissingAfterFetch ==
    (snapshot.response.kind = "response" /\ snapshot.response.status_code = 200) =>
        LET df == snapshot.df
            data == snapshot.response.data
        IN  /\ \A i \in 1..Len(df.rows) : \A c \in df.columns : df.rows[i][c].t # "None"
            /\ snapshot.response.json_ok =>
                  /\ Len(df.rows) = Len(data)
                  /\ \A i \in 1..Len(data) : \A c \in Columns :
                        df.rows[i][c] = IF data[i][c] = None THEN IntV(0) ELSE data[i][c]

\* C9 witness: a response with a null host and a null participants_total
\* next to entries that are present.
NullsFilled ==
    /\ snapshot.response.kind = "response"
    /\ Len(snapshot.response.data) = 2
    /\ snapshot.response.data[1].host = None
    /\ snapshot.response.data[2].participants_total = None
    /\ snapshot.df.rows[1].host = IntV(0)
    /\ snapshot.df.rows[2].participants_total = IntV(0)
    /\ snapshot.df.rows[2].host = StrV("Atlantis")

\* C10: with editions fetched, every run completes for every type and year
\* range the sidebar allows; nothing is raised.
RenderAlwaysCompletes ==
    (view.outcome # "none" /\ ~IsEmpty(snapshot.df)) => view.outcome = "rendered"

====
